---- MODULE Spec2Model ----
(***************************************************************************)
(* chaos-rings-bot: the "/ring" slash command.                             *)
(*                                                                         *)
(* src/src/main.rs          Handler::interaction_create and its responders *)
(* src/src/commands/ring.rs run, find_dao_role, overlay_ring,              *)
(*                          apply_transparency, get_ring_width             *)
(*                                                                         *)
(* Images are square RGBA8 buffers (ring.rs:120 "images must be square so  *)
(* one dimension is enough"): a record [side, px] with px a function from  *)
(* <<x, y>> to a pixel <<r, g, b, a>>.  The calls into the image crate     *)
(* (resize_to_fill, copy_from, imageops::overlay) are modelled by what the *)
(* crate (0.24) computes for square RGBA8 buffers and FilterType::Nearest. *)
(***************************************************************************)
EXTENDS Integers, Sequences, FiniteSets, TLC

\* Largest side of a ring or avatar image drawn in Init.
MaxSide == 5

\* Largest side of a buffer drawn in MaskInit.
MaxMaskSide == 2

Max(a, b) == IF a >= b THEN a ELSE b

(***************************************************************************)
(* Pixels and buffers                                                      *)
(***************************************************************************)

\* RgbaImage::new zero-fills: every pixel is <<0, 0, 0, 0>>.
Transparent == <<0, 0, 0, 0>>

Coords(n) == (0 .. n - 1) \X (0 .. n - 1)

NewImage(n) == [side |-> n, px |-> [p \in Coords(n) |-> Transparent]]

GetPixel(img, x, y) == img.px[<<x, y>>]

\* f64::round of a / b for a >= 0, b > 0.
RoundDiv(a, b) == (2 * a + b) \div (2 * b)

\* image::math::utils::resize_dimensions(side, side, nside, nside, fill = true):
\* ratio = nside / side, new side = max(round(side * ratio), 1).
ResizeDimensions(side, nside) == Max(RoundDiv(side * nside, side), 1)

\* Nearest filter (box kernel, support 0): output index out of nOut reads the
\* input index floor((out + 0.5) * nIn / nOut).
SampleIndex(out, nIn, nOut) == ((2 * out + 1) * nIn) \div (2 * nOut)

ResizeExact(img, n) ==
    IF n = img.side
    THEN img
    ELSE [side |-> n,
          px   |-> [p \in Coords(n) |->
                      GetPixel(img, SampleIndex(p[1], img.side, n),
                                    SampleIndex(p[2], img.side, n))]]

Crop(img, x, y, n) ==
    [side |-> n, px |-> [p \in Coords(n) |-> GetPixel(img, p[1] + x, p[2] + y)]]

\* DynamicImage::resize_to_fill(n, n, FilterType::Nearest) on a square image:
\* resize to the fill dimensions, then crop the centred n x n window.
ResizeToFill(img, n) ==
    LET i == ResizeDimensions(img.side, n)
    IN  Crop(ResizeExact(img, i), (i - n) \div 2, 0, n)

\* GenericImage::copy_from(other, x, y) fails with DimensionMismatch unless
\* other fits into the buffer at that offset.
CopyFits(buf, other, x, y) ==
    ~(buf.side < other.side + x \/ buf.side < other.side + y)

CopyFrom(buf, other, x, y) ==
    [buf EXCEPT !.px =
        [p \in Coords(buf.side) |->
            IF /\ x <= p[1] /\ p[1] < x + other.side
               /\ y <= p[2] /\ p[2] < y + other.side
            THEN GetPixel(other, p[1] - x, p[2] - y)
            ELSE buf.px[p]]]

\* Rgba<u8>::blend (source-over): a fully transparent foreground leaves the
\* background, a fully opaque one replaces it, anything between is blended on
\* premultiplied channels and cast back to u8 by truncation.  The crate blends
\* in f32; for the pixels drawn here (RingSoft over an avatar pixel or over a
\* transparent one) the f32 results are the exact quotients below.
BlendChannel(bc, ba, fc, fa) ==
    (fc * fa * 255 + bc * ba * (255 - fa)) \div (255 * (ba + fa) - ba * fa)

Blend(bg, fg) ==
    IF fg[4] = 0 THEN bg
    ELSE IF fg[4] = 255 THEN fg
    ELSE IF 255 * (bg[4] + fg[4]) - bg[4] * fg[4] = 0 THEN bg
    ELSE << BlendChannel(bg[1], bg[4], fg[1], fg[4]),
            BlendChannel(bg[2], bg[4], fg[2], fg[4]),
            BlendChannel(bg[3], bg[4], fg[3], fg[4]),
            (255 * (bg[4] + fg[4]) - bg[4] * fg[4]) \div 255 >>

OverlayUnder(bottom, top) ==
    [bottom EXCEPT !.px =
        [p \in Coords(bottom.side) |-> Blend(top.px[p], bottom.px[p])]]

\* imageops::overlay(bottom, top, 0, 0) for buffers of one size.
Overlay(bottom, top) ==
    [bottom EXCEPT !.px =
        [p \in Coords(bottom.side) |-> Blend(bottom.px[p], top.px[p])]]

(***************************************************************************)
(* ring.rs: apply_transparency, get_ring_width                             *)
(***************************************************************************)

\* hypot(x - cx, y - cy) > radius, on the integers the call passes: the
\* comparison of the squares (f32 represents them exactly at these sizes).
Outside(x, y, radius, cx, cy) ==
    (x - cx) * (x - cx) + (y - cy) * (y - cy) > radius * radius

ApplyTransparencyInvert(buf, radius, cx, cy) ==
    [buf EXCEPT !.px =
        [p \in Coords(buf.side) |->
            IF Outside(p[1], p[2], radius, cx, cy)
            THEN [buf.px[p] EXCEPT ![4] = 255 - @]
            ELSE buf.px[p]]]

ApplyTransparencyColumnOnly(buf, radius, cx, cy) ==
    [buf EXCEPT !.px =
        [p \in Coords(buf.side) |->
            IF (p[1] - cx) * (p[1] - cx) > radius * radius
            THEN [buf.px[p] EXCEPT ![4] = 0]
            ELSE buf.px[p]]]

ApplyTransparency(buf, radius, cx, cy) ==
    [buf EXCEPT !.px =
        [p \in Coords(buf.side) |->
            IF Outside(p[1], p[2], radius, cx, cy)
            THEN [buf.px[p] EXCEPT ![4] = 0]
            ELSE buf.px[p]]]

GetRingWidthWholeColumn(img) ==
    Cardinality({y \in 0 .. img.side - 1 :
                    GetPixel(img, img.side \div 2, y)[4] # 0})

GetRingWidth(img) ==
    Cardinality({y \in 0 .. (img.side \div 2) - 1 :
                    GetPixel(img, img.side \div 2, y)[4] # 0})

(***************************************************************************)
(* ring.rs: load_env_var, parse_role_id, find_dao_role                     *)
(***************************************************************************)

Unset == "<unset>"

EnvNames == {"DAO_ROLE_FREN", "DAO_ROLE_REGULAR", "DAO_ROLE_DAOIST",
             "CHAOSRING_FRENS", "CHAOSRING_REGULARS", "CHAOSRING_DAOISTS"}

LoadEnvVar(e, name) == [ok |-> e[name] # Unset, val |-> e[name]]

\* str::parse::<u64> on the values the environment is drawn from.
ParseRoleId(v) ==
    CASE v = "1" -> [ok |-> TRUE, id |-> 1]
      [] v = "2" -> [ok |-> TRUE, id |-> 2]
      [] v = "3" -> [ok |-> TRUE, id |-> 3]
      [] OTHER   -> [ok |-> FALSE, id |-> 0]

RoleId(e, name) ==
    IF LoadEnvVar(e, name).ok THEN ParseRoleId(LoadEnvVar(e, name).val)
    ELSE [ok |-> FALSE, id |-> 0]

RoleByPriorityFrenFirst(roles, fren, regular, daoist) ==
    IF fren \in roles THEN "Frens"
    ELSE IF regular \in roles THEN "Regulars"
    ELSE IF daoist \in roles THEN "DAOists"
    ELSE "none"

RoleByPriority(roles, fren, regular, daoist) ==
    IF daoist \in roles THEN "DAOists"
    ELSE IF regular \in roles THEN "Regulars"
    ELSE IF fren \in roles THEN "Frens"
    ELSE "none"

\* result: "ok" (role set), "user_recoverable" (none of the three roles) or
\* "error" (a role variable is unset or does not parse; the roles are not
\* looked at).
FindDaoRole(roles, e) ==
    LET fren    == RoleId(e, "DAO_ROLE_FREN")
        regular == RoleId(e, "DAO_ROLE_REGULAR")
        daoist  == RoleId(e, "DAO_ROLE_DAOIST")
    IN  IF ~fren.ok \/ ~regular.ok \/ ~daoist.ok
        THEN [result |-> "error", role |-> "none"]
        ELSE LET r == RoleByPriority(roles, fren.id, regular.id, daoist.id)
             IN  IF r = "none"
                 THEN [result |-> "user_recoverable", role |-> "none"]
                 ELSE [result |-> "ok", role |-> r]

\* run's match on the role: the variable that names the ring asset.
RingVar(role) ==
    CASE role = "Frens"    -> "CHAOSRING_FRENS"
      [] role = "Regulars" -> "CHAOSRING_REGULARS"
      [] role = "DAOists"  -> "CHAOSRING_DAOISTS"

(***************************************************************************)
(* ring.rs: overlay_ring's arithmetic                                      *)
(***************************************************************************)

NeedsResizeWhenSmaller(ringSide, avatarSide) == ringSide < avatarSide

NeedsResize(ringSide, avatarSide) == ringSide > avatarSide

OpeningSideOneBand(ringSide, width) == ringSide - width

OpeningSide(ringSide, width) == ringSide - 2 * width

(***************************************************************************)
(* State                                                                   *)
(***************************************************************************)

VARIABLES
    pc,                  \* the handler's position
    interaction,         \* the Interaction: kind, member, attachment option
    env,                 \* the process environment
    files,               \* the ring assets on disk, by path
    log,                 \* the HTTP calls made for this interaction, in order
    dao_role,            \* run: find_dao_role's DaoRole
    ring_path,           \* run: ring_path
    ring_img,            \* run: ring, overlay_ring's parameter ring
    avatar_img,          \* run: the decoded avatar, overlay_ring's avatar
    ring,                \* overlay_ring: the local ring (resized or not)
    ring_side,           \* overlay_ring: ring_side after the resize
    circumference_width, \* overlay_ring: circumference_width
    scaled_avatar,       \* overlay_ring: scaled_avatar
    buffer,              \* overlay_ring: buffer
    overlay_result,      \* overlay_ring's ImageResult: "none", "ok", "err"
    response,            \* run's Result: "pending", "ok", "user_recoverable", "error"
    mask_call            \* apply_transparency's arguments radius, cx, cy

vars == << pc, interaction, env, files, log, dao_role, ring_path, ring_img,
           avatar_img, ring, ring_side, circumference_width, scaled_avatar,
           buffer, overlay_result, response, mask_call >>

runVars == << dao_role, ring_path, ring_img, avatar_img >>

overlayVars == << ring, ring_side, circumference_width, scaled_avatar,
                  buffer, overlay_result, mask_call >>

worldVars == << interaction, env, files >>

(***************************************************************************)
(* Inputs                                                                  *)
(***************************************************************************)

RingHard == <<200, 100, 50, 255>>

RingSoft == <<200, 100, 50, 64>>

\* A ring of side s with a band of thickness t: a pixel is painted when its
\* centre (x + 1/2, y + 1/2) lies between the radii s/2 - t and s/2 around
\* the centre (s/2, s/2) of the image (compared on doubled coordinates).
AnnulusRing(s, t, pix) ==
    [side |-> s,
     px   |-> [p \in Coords(s) |->
                 LET d2 == (2 * p[1] + 1 - s) * (2 * p[1] + 1 - s)
                           + (2 * p[2] + 1 - s) * (2 * p[2] + 1 - s)
                 IN  IF (s - 2 * t) * (s - 2 * t) <= d2 /\ d2 <= s * s
                     THEN pix ELSE Transparent]]

\* A square frame of thickness t: its corners lie outside the disc.
FrameRing(s, t, pix) ==
    [side |-> s,
     px   |-> [p \in Coords(s) |->
                 IF \/ p[1] < t \/ p[2] < t
                    \/ s - 1 - p[1] < t \/ s - 1 - p[2] < t
                 THEN pix ELSE Transparent]]

\* A ring drawn in the geometry of apply_transparency: a pixel is painted when
\* its distance d from (s/2, s/2) (integer halves) has r - t < d <= r, r = s/2.
DiscRing(s, t, pix) ==
    [side |-> s,
     px   |-> [p \in Coords(s) |->
                 LET c  == s \div 2
                     d2 == (p[1] - c) * (p[1] - c) + (p[2] - c) * (p[2] - c)
                 IN  IF (c - t) * (c - t) < d2 /\ d2 <= c * c
                     THEN pix ELSE Transparent]]

Rings ==
    UNION {{AnnulusRing(s, t, pix), FrameRing(s, t, pix), DiscRing(s, t, pix)} :
             <<s, t, pix>> \in {<<s, t, pix>> \in (1 .. MaxSide) \X (0 .. MaxSide)
                                                \X {RingHard, RingSoft} :
                                    t <= s \div 2}}

\* An avatar whose pixels carry their position; "holes" has transparent
\* pixels, "soft" is translucent throughout.
AvatarImage(a, kind) ==
    [side |-> a,
     px   |-> [p \in Coords(a) |->
                 << 10 + p[1], 20 + p[2], 30,
                    CASE kind = "opaque" -> 255
                      [] kind = "holes"  -> IF (p[1] + p[2]) % 2 = 0 THEN 255 ELSE 0
                      [] kind = "soft"   -> 128 >>]]

Avatars == {AvatarImage(a, k) : <<a, k>> \in (1 .. MaxSide) \X {"opaque", "holes", "soft"}}

Paths == {"frens.png", "regulars.png", "daoists.png"}

RoleRing(path) ==
    CASE path = "frens.png"    -> FrameRing(4, 1, <<0, 200, 0, 255>>)
      [] path = "regulars.png" -> FrameRing(4, 1, <<0, 0, 200, 255>>)
      [] path = "daoists.png"  -> FrameRing(4, 1, <<200, 0, 0, 255>>)

GoodFiles == [p \in Paths |-> [ok |-> TRUE, img |-> RoleRing(p)]]

GoodEnv ==
    [n \in EnvNames |->
        CASE n = "DAO_ROLE_FREN"      -> "1"
          [] n = "DAO_ROLE_REGULAR"   -> "2"
          [] n = "DAO_ROLE_DAOIST"    -> "3"
          [] n = "CHAOSRING_FRENS"    -> "frens.png"
          [] n = "CHAOSRING_REGULARS" -> "regulars.png"
          [] n = "CHAOSRING_DAOISTS"  -> "daoists.png"]

RoleValues == {Unset, "abc", "1", "2", "3"}

\* Every setting of the three role variables, with the ring variables all
\* set or one of them unset or naming no file.
Envs ==
    {[n \in EnvNames |->
        CASE n = "DAO_ROLE_FREN"    -> rv[1]
          [] n = "DAO_ROLE_REGULAR" -> rv[2]
          [] n = "DAO_ROLE_DAOIST"  -> rv[3]
          [] OTHER -> IF n = bad[1] THEN bad[2] ELSE GoodEnv[n]] :
        <<rv, bad>> \in (RoleValues \X RoleValues \X RoleValues)
                        \X (({"", "CHAOSRING_FRENS", "CHAOSRING_REGULARS",
                              "CHAOSRING_DAOISTS"} \X {Unset})
                            \cup ({"CHAOSRING_REGULARS"} \X {"missing.png"}))}

GoodAttachment(img) ==
    [present |-> TRUE, download_ok |-> TRUE, decodes |-> TRUE, img |-> img]

Attachments(img) ==
    {[present |-> pr, download_ok |-> dl, decodes |-> dc, img |-> img] :
        <<pr, dl, dc>> \in {<<FALSE, FALSE, FALSE>>, <<TRUE, FALSE, FALSE>>,
                            <<TRUE, TRUE, FALSE>>, <<TRUE, TRUE, TRUE>>}}

Command(member, attachment) ==
    [kind |-> "ApplicationCommand", member |-> member, attachment |-> attachment]

\* The role resolution: every environment against every set of roles.
RoleInputs ==
    {[interaction |-> Command([present |-> TRUE, roles |-> rs],
                              GoodAttachment(AvatarImage(4, "opaque"))),
      env |-> e, files |-> GoodFiles] :
        <<rs, e>> \in (SUBSET {1, 2, 3}) \X Envs}

\* The dispatch: kind of interaction, member and attachment present or not.
DispatchInputs ==
    {[interaction |-> [kind |-> k, member |-> [present |-> mp, roles |-> rs],
                       attachment |-> at],
      env |-> GoodEnv,
      files |-> [GoodFiles EXCEPT !["frens.png"].ok = fok]] :
        <<k, mp, rs, at, fok>> \in
            {"ApplicationCommand", "Ping"} \X BOOLEAN \X {{}, {1}, {2, 9}}
            \X Attachments(AvatarImage(3, "holes")) \X BOOLEAN}

\* The compositing: a DAOist with every ring against every avatar.
ImageInputs ==
    {[interaction |-> Command([present |-> TRUE, roles |-> {3}], GoodAttachment(av)),
      env |-> GoodEnv,
      files |-> [p \in Paths |-> [ok |-> TRUE, img |-> rg]]] :
        <<rg, av>> \in Rings \X Avatars}

Inputs == RoleInputs \cup DispatchInputs \cup ImageInputs

NoImage == NewImage(0)

NoCall == [radius |-> 0, cx |-> 0, cy |-> 0]

Init ==
    /\ \E i \in Inputs :
          /\ interaction = i.interaction
          /\ env = i.env
          /\ files = i.files
    /\ pc = "start"
    /\ log = << >>
    /\ dao_role = "none"
    /\ ring_path = ""
    /\ ring_img = NoImage
    /\ avatar_img = NoImage
    /\ ring = NoImage
    /\ ring_side = 0
    /\ circumference_width = 0
    /\ scaled_avatar = NoImage
    /\ buffer = NoImage
    /\ overlay_result = "none"
    /\ response = "pending"
    /\ mask_call = NoCall

(***************************************************************************)
(* main.rs: Handler::interaction_create                                    *)
(***************************************************************************)

\* create_interaction_response / create_followup_message: the call is made;
\* whether Discord accepts it is not the handler's to decide (an Err is only
\* printed).
Send(kind, text) ==
    \E delivered \in BOOLEAN :
        log' = Append(log, [kind |-> kind, text |-> text, delivered |-> delivered])

\* Any interaction that is not an application command is dropped.
Ignore ==
    /\ pc = "start"
    /\ interaction.kind # "ApplicationCommand"
    /\ pc' = "done"
    /\ UNCHANGED << worldVars, log, runVars, overlayVars, response >>

RespondAck ==
    /\ pc = "start"
    /\ interaction.kind = "ApplicationCommand"
    /\ Send("response", "Preparing your avatar...")
    /\ pc' = "check_member"
    /\ UNCHANGED << worldVars, runVars, overlayVars, response >>

CheckMemberNoReturn ==
    /\ pc = "check_member"
    /\ IF ~interaction.member.present
       THEN Send("followup_error", "No user info found.")
       ELSE UNCHANGED log
    /\ pc' = "check_image"
    /\ UNCHANGED << worldVars, runVars, overlayVars, response >>

CheckMember ==
    /\ pc = "check_member"
    /\ IF ~interaction.member.present
       THEN Send("followup_error", "No user info found.") /\ pc' = "done"
       ELSE UNCHANGED log /\ pc' = "check_image"
    /\ UNCHANGED << worldVars, runVars, overlayVars, response >>

CheckImage ==
    /\ pc = "check_image"
    /\ IF ~interaction.attachment.present
       THEN Send("followup_error", "No user image (attachment) found.") /\ pc' = "done"
       ELSE UNCHANGED log /\ pc' = "find_dao_role"
    /\ UNCHANGED << worldVars, runVars, overlayVars, response >>

(***************************************************************************)
(* ring.rs: run                                                            *)
(***************************************************************************)

\* run returns Err: the handler goes on to its match on the response.
Fail(kind) == response' = kind /\ pc' = "respond"

FindRole ==
    /\ pc = "find_dao_role"
    /\ LET r == FindDaoRole(interaction.member.roles, env)
       IN  IF r.result = "ok"
           THEN dao_role' = r.role /\ pc' = "load_ring_path" /\ UNCHANGED response
           ELSE Fail(r.result) /\ UNCHANGED dao_role
    /\ UNCHANGED << worldVars, log, ring_path, ring_img, avatar_img, overlayVars >>

LoadRingPath ==
    /\ pc = "load_ring_path"
    /\ LET v == LoadEnvVar(env, RingVar(dao_role))
       IN  IF v.ok
           THEN ring_path' = v.val /\ pc' = "open_ring" /\ UNCHANGED response
           ELSE Fail("error") /\ UNCHANGED ring_path
    /\ UNCHANGED << worldVars, log, dao_role, ring_img, avatar_img, overlayVars >>

\* ImageReader::open(path)?.decode()?
OpenRing ==
    /\ pc = "open_ring"
    /\ IF ring_path \in DOMAIN files /\ files[ring_path].ok
       THEN ring_img' = files[ring_path].img /\ pc' = "download" /\ UNCHANGED response
       ELSE Fail("error") /\ UNCHANGED ring_img
    /\ UNCHANGED << worldVars, log, dao_role, ring_path, avatar_img, overlayVars >>

DownloadAvatar ==
    /\ pc = "download"
    /\ IF interaction.attachment.download_ok
       THEN pc' = "decode" /\ UNCHANGED response
       ELSE Fail("error")
    /\ UNCHANGED << worldVars, log, runVars, overlayVars >>

\* image::load_from_memory(&avatar)
DecodeAvatar ==
    /\ pc = "decode"
    /\ IF interaction.attachment.decodes
       THEN avatar_img' = interaction.attachment.img /\ pc' = "normalize"
            /\ UNCHANGED response
       ELSE Fail("error") /\ UNCHANGED avatar_img
    /\ UNCHANGED << worldVars, log, dao_role, ring_path, ring_img, overlayVars >>

(***************************************************************************)
(* ring.rs: overlay_ring, stage by stage                                   *)
(***************************************************************************)

Normalize ==
    /\ pc = "normalize"
    /\ ring' = IF NeedsResize(ring_img.side, avatar_img.side)
               THEN ResizeToFill(ring_img, avatar_img.side)
               ELSE ring_img
    /\ ring_side' = ring'.side
    /\ pc' = "detect_width"
    /\ UNCHANGED << worldVars, log, runVars, circumference_width, scaled_avatar,
                    buffer, overlay_result, response, mask_call >>

DetectWidth ==
    /\ pc = "detect_width"
    /\ circumference_width' = GetRingWidth(ring)
    /\ pc' = "fit"
    /\ UNCHANGED << worldVars, log, runVars, ring, ring_side, scaled_avatar,
                    buffer, overlay_result, response, mask_call >>

\* ring_side - 2 * circumference_width is a u32 subtraction: below zero it
\* panics (or wraps to a side no buffer can have), and the handler's task ends
\* without a follow-up.
Fit ==
    /\ pc = "fit"
    /\ IF OpeningSide(ring_side, circumference_width) < 0
       THEN pc' = "panicked" /\ UNCHANGED scaled_avatar
       ELSE /\ scaled_avatar' = ResizeToFill(avatar_img,
                                    OpeningSide(ring_side, circumference_width))
            /\ pc' = "paste"
    /\ UNCHANGED << worldVars, log, runVars, ring, ring_side, circumference_width,
                    buffer, overlay_result, response, mask_call >>

\* RgbaImage::new(ring_side, ring_side), then copy_from(...)?
Paste ==
    /\ pc = "paste"
    /\ IF CopyFits(NewImage(ring_side), scaled_avatar,
                   circumference_width, circumference_width)
       THEN /\ buffer' = CopyFrom(NewImage(ring_side), scaled_avatar,
                                  circumference_width, circumference_width)
            /\ pc' = "overlay"
            /\ UNCHANGED << overlay_result, response >>
       ELSE /\ overlay_result' = "err"
            /\ Fail("error")
            /\ UNCHANGED buffer
    /\ UNCHANGED << worldVars, log, runVars, ring, ring_side, circumference_width,
                    scaled_avatar, mask_call >>

OverlayRing ==
    /\ pc = "overlay"
    /\ buffer' = Overlay(buffer, ring)
    /\ pc' = "mask"
    /\ UNCHANGED << worldVars, log, runVars, ring, ring_side, circumference_width,
                    scaled_avatar, overlay_result, response, mask_call >>

\* apply_transparency(&mut buffer, ring_side / 2, cx, cy); Ok(buffer)
Mask ==
    /\ pc = "mask"
    /\ mask_call' = [radius |-> ring_side \div 2,
                     cx     |-> buffer.side \div 2,
                     cy     |-> buffer.side \div 2]
    /\ buffer' = ApplyTransparency(buffer, mask_call'.radius, mask_call'.cx,
                                   mask_call'.cy)
    /\ overlay_result' = "ok"
    /\ pc' = "encode"
    /\ UNCHANGED << worldVars, log, runVars, ring, ring_side, circumference_width,
                    scaled_avatar, response >>

\* avatar.write_to(&mut cursor, Png): the buffer becomes the attachment.
Encode ==
    /\ pc = "encode"
    /\ response' = "ok"
    /\ pc' = "respond"
    /\ UNCHANGED << worldVars, log, runVars, overlayVars >>

UserErrorText == "Error while preparing an avatar: User is not a DAOist, regular or fren"

\* The handler's match on run's response.
Respond ==
    /\ pc = "respond"
    /\ CASE response = "ok" -> Send("followup_attachment", "avatar.png")
         [] response = "user_recoverable" -> Send("followup_error", UserErrorText)
         [] OTHER -> Send("followup_error", "Unexpected error")
    /\ pc' = "done"
    /\ UNCHANGED << worldVars, runVars, overlayVars, response >>

Next ==
    \/ Ignore
    \/ RespondAck
    \/ CheckMember
    \/ CheckImage
    \/ FindRole
    \/ LoadRingPath
    \/ OpenRing
    \/ DownloadAvatar
    \/ DecodeAvatar
    \/ Normalize
    \/ DetectWidth
    \/ Fit
    \/ Paste
    \/ OverlayRing
    \/ Mask
    \/ Encode
    \/ Respond

Spec == Init /\ [][Next]_vars

(***************************************************************************)
(* apply_transparency on its own: any buffer, radius and centre            *)
(***************************************************************************)

MaskBuffers ==
    UNION {[side : {n}, px : [Coords(n) -> {Transparent, <<9, 9, 9, 255>>}]] :
             n \in 0 .. MaxMaskSide}

MaskInit ==
    /\ pc = "mask_input"
    /\ buffer \in MaskBuffers
    /\ mask_call \in [radius : 0 .. buffer.side, cx : 0 .. buffer.side,
                      cy : 0 .. buffer.side]
    /\ interaction = Command([present |-> FALSE, roles |-> {}],
                             GoodAttachment(NoImage))
    /\ env = GoodEnv
    /\ files = GoodFiles
    /\ log = << >>
    /\ dao_role = "none"
    /\ ring_path = ""
    /\ ring_img = NoImage
    /\ avatar_img = NoImage
    /\ ring = NoImage
    /\ ring_side = 0
    /\ circumference_width = 0
    /\ scaled_avatar = NoImage
    /\ overlay_result = "none"
    /\ response = "pending"

MaskOnce ==
    /\ pc = "mask_input"
    /\ buffer' = ApplyTransparency(buffer, mask_call.radius, mask_call.cx, mask_call.cy)
    /\ pc' = "masked_once"
    /\ UNCHANGED << worldVars, log, runVars, ring, ring_side, circumference_width,
                    scaled_avatar, overlay_result, response, mask_call >>

MaskAgain ==
    /\ pc = "masked_once"
    /\ buffer' = ApplyTransparency(buffer, mask_call.radius, mask_call.cx, mask_call.cy)
    /\ pc' = "masked_twice"
    /\ UNCHANGED << worldVars, log, runVars, ring, ring_side, circumference_width,
                    scaled_avatar, overlay_result, response, mask_call >>

MaskNext == MaskOnce \/ MaskAgain

MaskSpec == MaskInit /\ [][MaskNext]_vars

(***************************************************************************)
(* Properties                                                              *)
(***************************************************************************)

\* overlay_ring has returned Ok(buffer).
Composed == overlay_result = "ok"

\* The canvas pixel under the ring at p: the pasted avatar pixel inside the
\* pasted square, a transparent pixel outside it.
Under(p) ==
    LET w == circumference_width
    IN  IF /\ w <= p[1] /\ p[1] < w + scaled_avatar.side
           /\ w <= p[2] /\ p[2] < w + scaled_avatar.side
        THEN scaled_avatar.px[<<p[1] - w, p[2] - w>>]
        ELSE Transparent

C2_ZeroWidthFails ==
    (overlay_result # "none" /\ circumference_width = 0) => overlay_result = "err"

\* C3: when the detected width w is not less than half the ring side s
\* (2w >= s), overlay_ring returns a failure and never a canvas, and s - 2w
\* never underflows.
C3_ClosedOpeningFails ==
    /\ pc # "panicked"
    /\ (overlay_result # "none" /\ 2 * circumference_width >= ring_side)
           => overlay_result = "err"

\* C4: on a ring with a band of constant thickness t (AnnulusRing)
\* get_ring_width returns exactly t.
C4_AnnulusWidth ==
    pc = "fit" =>
        \A t \in 0 .. ring.side \div 2 : \A pix \in {RingHard, RingSoft} :
            ring = AnnulusRing(ring.side, t, pix) => circumference_width = t

\* C4 witness: the width of a band of thickness 2 in a ring of odd side has
\* been detected.
C4_Witness ==
    /\ pc = "fit"
    /\ ring.side % 2 = 1
    /\ ring = AnnulusRing(ring.side, 2, RingHard)
    /\ circumference_width = 2

AfterNormalize ==
    pc \in {"detect_width", "fit", "paste", "overlay", "mask", "encode"}

\* C6: after the normalization the ring side is at most the avatar side: a
\* larger ring has been resized to exactly the avatar side, a ring not larger
\* than the avatar is unchanged.
C6_RingNotLargerThanAvatar ==
    AfterNormalize =>
        /\ ring.side <= avatar_img.side
        /\ ring_side = ring.side
        /\ ring_img.side > avatar_img.side => ring.side = avatar_img.side
        /\ ring_img.side <= avatar_img.side => ring = ring_img

\* C6 witness: a ring larger than the avatar has been downsized.
C6_Witness ==
    /\ pc = "detect_width"
    /\ ring_img.side > avatar_img.side
    /\ ring.side = avatar_img.side

\* C7: with 0 < w < s/2 the fitted avatar has side s - 2w, is pasted at (w, w)
\* inside the canvas, and the canvas has side s.
C7_FittedAvatar ==
    (0 < circumference_width /\ 2 * circumference_width < ring_side) =>
        /\ pc \in {"paste", "overlay", "mask", "encode"} =>
              /\ scaled_avatar.side = ring_side - 2 * circumference_width
              /\ circumference_width + scaled_avatar.side <= ring_side
        /\ pc = "overlay" =>
              \A q \in Coords(scaled_avatar.side) :
                  buffer.px[<<circumference_width + q[1],
                              circumference_width + q[2]>>] = scaled_avatar.px[q]
        /\ pc \in {"overlay", "mask", "encode"} => buffer.side = ring_side
        /\ pc \in {"encode", "respond", "done"} =>
              Composed /\ buffer.side = ring_side

\* C7 witness: an avatar of side at least 2 pasted inside a ring of width >= 1.
C7_Witness ==
    /\ pc = "overlay"
    /\ circumference_width >= 1
    /\ scaled_avatar.side >= 2
    /\ scaled_avatar.side = ring_side - 2 * circumference_width

\* C8: applying apply_transparency a second time with the same radius and
\* centre leaves every pixel of the buffer unchanged.
C8_MaskIdempotent ==
    [][(pc = "masked_once" /\ pc' = "masked_twice") => buffer' = buffer]_vars

\* C8 witness: a buffer masked twice in which the mask cleared a pixel and
\* kept another.
C8_Witness ==
    /\ pc = "masked_twice"
    /\ \E p \in Coords(buffer.side) : buffer.px[p] = <<9, 9, 9, 0>>
    /\ \E q \in Coords(buffer.side) : buffer.px[q] = <<9, 9, 9, 255>>

\* C9: for an application command the acknowledgement is the first call, and
\* when the handler is done exactly one follow-up has been made after it: the
\* attachment if run succeeded, else one error message with the text of its
\* cause.
C9_AckThenOneFollowup ==
    /\ Len(log) <= 2
    /\ Len(log) >= 1 =>
          log[1].kind = "response" /\ log[1].text = "Preparing your avatar..."
    /\ Len(log) = 2 => log[2].kind \in {"followup_attachment", "followup_error"}
    /\ (pc = "done" /\ interaction.kind = "ApplicationCommand") =>
          /\ Len(log) = 2
          /\ log[2].kind = "followup_attachment" <=> response = "ok"
          /\ log[2].kind = "followup_error" =>
                log[2].text =
                    IF ~interaction.member.present THEN "No user info found."
                    ELSE IF ~interaction.attachment.present
                         THEN "No user image (attachment) found."
                    ELSE IF response = "user_recoverable" THEN UserErrorText
                    ELSE "Unexpected error"

\* C9 witness: the handler is done after the acknowledgement and the
\* attachment.
C9_Witness ==
    /\ pc = "done"
    /\ Len(log) = 2
    /\ log[2].kind = "followup_attachment"

\* find_dao_role has returned.
FindRoleReturned ==
    /\ interaction.kind = "ApplicationCommand"
    /\ interaction.member.present
    /\ interaction.attachment.present
    /\ pc \notin {"start", "check_member", "check_image", "find_dao_role"}

\* The member holds the role the variable names.
Holds(name) ==
    /\ env[name] \in {"1", "2", "3"}
    /\ \E id \in interaction.member.roles :
          env[name] = CASE id = 1 -> "1" [] id = 2 -> "2" [] id = 3 -> "3"
                        [] OTHER -> "none"

RolesConfigured ==
    \A n \in {"DAO_ROLE_FREN", "DAO_ROLE_REGULAR", "DAO_ROLE_DAOIST"} :
        env[n] \in {"1", "2", "3"}

\* The role of highest rank the member holds.
Highest ==
    IF Holds("DAO_ROLE_DAOIST") THEN "DAOists"
    ELSE IF Holds("DAO_ROLE_REGULAR") THEN "Regulars"
    ELSE IF Holds("DAO_ROLE_FREN") THEN "Frens"
    ELSE "none"

HighestRingVar ==
    CASE Highest = "DAOists"  -> "CHAOSRING_DAOISTS"
      [] Highest = "Regulars" -> "CHAOSRING_REGULARS"
      [] Highest = "Frens"    -> "CHAOSRING_FRENS"
      [] OTHER                -> "none"

RoleResolved ==
    /\ dao_role = Highest
    /\ Highest = "none" => response = "user_recoverable"
    /\ ring_path # "" => ring_path = env[HighestRingVar]
    /\ ring_img # NoImage => ring_img = files[env[HighestRingVar]].img

\* C10 as stated: find_dao_role returns the role of highest rank the member
\* holds (DAOists over Regulars over Frens), a UserRecoverableError when the
\* member holds none, and run takes the ring asset of that role.
C10_RoleByPriority ==
    FindRoleReturned => RoleResolved

\* C10 amended: when the three DAO_ROLE_* variables are set and parse,
\* find_dao_role returns the role of highest rank the member holds, a
\* UserRecoverableError when the member holds none, and run takes the ring
\* asset of that role; when one of them is unset or does not parse it returns
\* an error that is not a UserRecoverableError, whatever the member holds.
C10_RoleByPriorityWhenConfigured ==
    FindRoleReturned =>
        IF RolesConfigured
        THEN RoleResolved
        ELSE dao_role = "none" /\ response = "error" /\ ring_path = ""

\* C10 witness: a member holding all three roles has been given the DAOists
\* ring.
C10_Witness ==
    /\ FindRoleReturned
    /\ RolesConfigured
    /\ Holds("DAO_ROLE_FREN") /\ Holds("DAO_ROLE_REGULAR") /\ Holds("DAO_ROLE_DAOIST")
    /\ env["DAO_ROLE_FREN"] # env["DAO_ROLE_DAOIST"]
    /\ dao_role = "DAOists"
    /\ ring_img = RoleRing("daoists.png")

====
